---- MODULE Spec2Model ----
(***************************************************************************)
(* A model of the browser-control library: the observer registry          *)
(* (transport/observe), the element-handle tree with its staleness        *)
(* tracking and input choreography, and the target orchestration of       *)
(* BrowserContext.                                                         *)
(***************************************************************************)
EXTENDS Integers, Sequences, FiniteSets, TLC

\* ------------------------------------------------------------------ bounds
\* Longest observer list the registry is driven to.
MaxObservers == 3
\* Most element handles ever created in one session (the root included).
MaxElems == 3
\* Most attempts the retry loop makes before its deadline passes.
MaxPolls == 4
\* Most sessions one BrowserContext constructs.
MaxSessions == 2

\* ------------------------------------------------------------ value domains
\* Observer identities (Observer.ID()); two entries may share one.
ObserverIds == {"o1", "o2"}
\* Event filters an observer may answer from Observer.Event().
Filters == {"*", "a", "b"}
\* Event names passed to Notify; "" broadcasts.
EventNames == {"", "a", "b"}
\* Values passed to Notify.
Values == {"v1", "v2"}
\* Remote object identifiers the browser hands out: for the document, and
\* for the nodes a query resolves to.
DocIds == {"d1", "d2"}
NodeIds == {"n1"}
\* Errors a session call can end with (the sentinels the handlers compare
\* against, and one standing for every other error).
RemoteErrs == {"ErrCannotFindContext", "ErrSessionClosed", "ErrOther"}
\* The result slot of a remote call the handler never got to.
Unused == [err |-> "unused", val |-> ""]

VARIABLES
    observers,   \* Observable.observers: the registered entries, in slice order
    busOp,       \* the registry operation performed last, with its arguments
    delivered,   \* callbacks invoked by the last registry operation, in order
    gone,        \* identities whose Unregister returned since their last Register
    mx,          \* Observable.mx: the thread holding the mutex, "" when unlocked
    threads      \* per calling thread: the registry call it is in and how far it got

VARIABLES
    elems,       \* the element handles of one session, by creation order; 1 is the document root
    elOp,        \* the element operation performed last: its receiver, inputs and outcome
    calls,       \* the session calls the last element operation issued, in order
    expect       \* the Expect in progress or last finished: its retry loop's state

VARIABLES
    sessions,    \* the Session objects runSession has built, by construction order
    brOp,        \* the BrowserContext operation performed last, with its outcome
    brCalls      \* the protocol calls the last BrowserContext operation issued

lockVars == <<mx, threads>>
busVars == <<observers, busOp, delivered, gone, mx, threads>>
elemVars == <<elems, elOp, calls>>
expectVars == <<expect>>
browserVars == <<sessions, brOp, brCalls>>

vars == <<observers, busOp, delivered, gone, mx, threads, elems, elOp, calls, expect,
          sessions, brOp, brCalls>>

\* ======================================================== observer registry

\* An Observer as the registry sees it: its ID() and its Event().
ObserverEntries == [id : ObserverIds, event : Filters]

\* Number of entries of obs whose identity is i.
CountId(obs, i) == Cardinality({n \in 1..Len(obs) : obs[n].id = i})

\* A mutant of Matches: the empty event name no longer broadcasts.
MatchesNoBroadcast(f, e) == f = "*" \/ f = e

\* The delivery condition of Notify's loop.  The source also tests
\* e.Notify != nil, a method value of a non-nil interface, which is never nil.
Matches(f, e) == f = "*" \/ e = "" \/ f = e

\* A mutant of NotifyFrom: the callbacks are invoked from the last matching
\* entry to the first.
RECURSIVE NotifyFromReversed(_, _, _, _)
NotifyFromReversed(obs, n, event, val) ==
    IF n > Len(obs) THEN <<>>
    ELSE NotifyFromReversed(obs, n + 1, event, val)
         \o (IF Matches(obs[n].event, event)
                THEN <<[pos |-> n, id |-> obs[n].id, val |-> val]>>
                ELSE <<>>)

\* The loop of Notify from slice index n on: the callbacks it invokes, in order.
RECURSIVE NotifyFrom(_, _, _, _)
NotifyFrom(obs, n, event, val) ==
    IF n > Len(obs) THEN <<>>
    ELSE (IF Matches(obs[n].event, event)
             THEN <<[pos |-> n, id |-> obs[n].id, val |-> val]>>
             ELSE <<>>)
         \o NotifyFrom(obs, n + 1, event, val)

\* Observable.Notify: under the mutex, one pass over the slice.
Notify(event, val) ==
    /\ delivered' = NotifyFrom(observers, 1, event, val)
    /\ busOp' = [op |-> "Notify", id |-> "", event |-> event, val |-> val]
    /\ UNCHANGED <<observers, gone, lockVars>>
    /\ UNCHANGED <<elemVars, expectVars, browserVars>>

\* Observable.Register: under the mutex, append.
Register(o) ==
    /\ Len(observers) < MaxObservers
    /\ observers' = Append(observers, o)
    /\ busOp' = [op |-> "Register", id |-> o.id, event |-> o.event, val |-> ""]
    /\ delivered' = <<>>
    /\ gone' = gone \ {o.id}
    /\ UNCHANGED lockVars
    /\ UNCHANGED <<elemVars, expectVars, browserVars>>

\* A mutant of RemoveAt: the tail is cut off without moving the last entry
\* into the freed slot.
RemoveAtNoSwap(obs, n) == SubSeq(obs, 1, Len(obs) - 1)

\* The body of Unregister's if: the last entry overwrites slot n and the
\* slice is shortened by one.
RemoveAt(obs, n) ==
    LET tail == Len(obs)
    IN  SubSeq([obs EXCEPT ![n] = obs[tail]], 1, tail - 1)

\* The slice after Unregister of identity i: the first entry with that
\* identity is removed; none, when no entry has it.
UnregisterResult(obs, i) ==
    LET hits == {n \in 1..Len(obs) : obs[n].id = i}
    IN  IF hits = {} THEN obs
        ELSE RemoveAt(obs, CHOOSE n \in hits : \A m \in hits : n <= m)

\* Observable.Unregister: under the mutex, remove the first match and return.
Unregister(i) ==
    /\ observers' = UnregisterResult(observers, i)
    /\ busOp' = [op |-> "Unregister", id |-> i, event |-> "", val |-> ""]
    /\ delivered' = <<>>
    /\ gone' = gone \cup {i}
    /\ UNCHANGED lockVars
    /\ UNCHANGED <<elemVars, expectVars, browserVars>>

\* ------------------------------------------- the registry, thread by thread

\* The threads calling into one Observable.
Threads == {"t1", "t2"}

\* A thread outside any registry call.
IdleThread ==
    [pc |-> "idle", op |-> "", id |-> "", event |-> "", val |-> "",
     n |-> 0, snap |-> <<>>, got |-> <<>>]

\* The calls a thread can make, with their arguments: Notify of a named
\* event, Register of an observer of any event or of event "a", Unregister.
RegistryCalls ==
    {[op |-> "Notify", id |-> "", event |-> e, val |-> "v1"] : e \in {"a", "b"}}
    \cup {[op |-> "Register", id |-> i, event |-> f, val |-> ""] :
             i \in ObserverIds, f \in {"*", "a"}}
    \cup {[op |-> "Unregister", id |-> i, event |-> "", val |-> ""] :
             i \in ObserverIds}

\* A mutant of MutexFree: Lock never waits.
MutexAlwaysFree(owner) == TRUE

\* sync.Mutex.Lock returns only when no thread holds the mutex.
MutexFree(owner) == owner = ""

\* A thread calls Notify, Register or Unregister and arrives at o.mx.Lock().
Enter(t, c) ==
    /\ threads[t].pc = "idle"
    /\ c.op = "Register" => Len(observers) < MaxObservers
    /\ threads' = [threads EXCEPT ![t] =
                      [pc |-> "lock", op |-> c.op, id |-> c.id,
                       event |-> c.event, val |-> c.val, n |-> 0, snap |-> <<>>,
                       got |-> <<>>]]
    /\ UNCHANGED <<observers, busOp, delivered, gone, mx>>
    /\ UNCHANGED <<elemVars, expectVars, browserVars>>

\* o.mx.Lock() returns.  In Notify the range expression o.observers is then
\* evaluated, once, and the pass starts at its first entry.
Lock(t) ==
    /\ threads[t].pc = "lock"
    /\ MutexFree(mx)
    /\ mx' = t
    /\ threads' = IF threads[t].op = "Notify"
                   THEN [threads EXCEPT ![t].pc = "body", ![t].n = 1,
                                        ![t].snap = observers]
                   ELSE [threads EXCEPT ![t].pc = "body"]
    /\ UNCHANGED <<observers, busOp, delivered, gone>>
    /\ UNCHANGED <<elemVars, expectVars, browserVars>>

\* One iteration of Notify's loop, or its end; got are the callbacks this
\* call has invoked, in order.
NotifyIterate(t) ==
    LET th == threads[t]
    IN  /\ th.pc = "body" /\ th.op = "Notify"
        /\ threads' =
              IF th.n > Len(th.snap)
              THEN [threads EXCEPT ![t].pc = "unlock"]
              ELSE [threads EXCEPT
                       ![t].n = th.n + 1,
                       ![t].got =
                          IF Matches(th.snap[th.n].event, th.event)
                          THEN Append(th.got, [pos |-> th.n,
                                               id |-> th.snap[th.n].id,
                                               val |-> th.val])
                          ELSE th.got]
        /\ UNCHANGED <<observers, busOp, delivered, gone, mx>>
        /\ UNCHANGED <<elemVars, expectVars, browserVars>>

\* The append of Register.
RegisterBody(t) ==
    LET th == threads[t]
    IN  /\ th.pc = "body" /\ th.op = "Register"
        /\ Len(observers) < MaxObservers
        /\ observers' = Append(observers, [id |-> th.id, event |-> th.event])
        /\ gone' = gone \ {th.id}
        /\ threads' = [threads EXCEPT ![t].pc = "unlock"]
        /\ UNCHANGED <<busOp, delivered, mx>>
        /\ UNCHANGED <<elemVars, expectVars, browserVars>>

\* The loop of Unregister.
UnregisterBody(t) ==
    LET th == threads[t]
    IN  /\ th.pc = "body" /\ th.op = "Unregister"
        /\ observers' = UnregisterResult(observers, th.id)
        /\ gone' = gone \cup {th.id}
        /\ threads' = [threads EXCEPT ![t].pc = "unlock"]
        /\ UNCHANGED <<busOp, delivered, mx>>
        /\ UNCHANGED <<elemVars, expectVars, browserVars>>

\* The deferred o.mx.Unlock(); the call returns.
Unlock(t) ==
    /\ threads[t].pc = "unlock"
    /\ mx' = ""
    /\ threads' = [threads EXCEPT ![t] = IdleThread]
    /\ UNCHANGED <<observers, busOp, delivered, gone>>
    /\ UNCHANGED <<elemVars, expectVars, browserVars>>

NextBusThreads ==
    \/ \E t \in Threads, c \in RegistryCalls : Enter(t, c)
    \/ \E t \in Threads : Lock(t)
    \/ \E t \in Threads : NotifyIterate(t)
    \/ \E t \in Threads : RegisterBody(t)
    \/ \E t \in Threads : UnregisterBody(t)
    \/ \E t \in Threads : Unlock(t)

\* observe.New: an empty registry.
InitBus ==
    /\ observers = <<>>
    /\ busOp = [op |-> "New", id |-> "", event |-> "", val |-> ""]
    /\ delivered = <<>>
    /\ gone = {}
    /\ mx = ""
    /\ threads = [t \in Threads |-> IdleThread]

NextBus ==
    \/ \E e \in EventNames, v \in Values : Notify(e, v)
    \/ \E o \in ObserverEntries : Register(o)
    \/ \E i \in ObserverIds : Unregister(i)

\* ========================================================== element handles

\* The handles created so far.
Handles == 1..Len(elems)

\* What a session call can answer.
Fail(e) == [err |-> e, val |-> ""]
Ok(v) == [err |-> "nil", val |-> v]
Failures == {Fail(e) : e \in RemoteErrs}

\* session.evaluate("document", ...): the re-resolved document, or an error.
EvalResults == {Ok(o) : o \in DocIds} \cup Failures
\* callFunctionOn(atom.Query): a node, the no-node result, or an error.
QueryResults == {Ok(v) : v \in NodeIds \cup {"null"}} \cup Failures
\* A call of which only the error matters.
PlainResults == {Ok("")} \cup Failures
\* callFunctionOn of a boolean atom (IsClickHit, IsVisible).
BoolResults == {Ok("true"), Ok("false")} \cup Failures

\* The session calls, as the log records them.
EvaluateDocument == [m |-> "Runtime.evaluate", a |-> "document", obj |-> ""]
CallFunctionOn(id, atom) == [m |-> "Runtime.callFunctionOn", a |-> atom, obj |-> id]
ObjectCall(method, id) == [m |-> method, a |-> "", obj |-> id]
DispatchMouseEvent(at, type) ==
    [m |-> "Input.dispatchMouseEvent", a |-> type, obj |-> "", at |-> at]

\* r.Middle(): the point computed from the quads getContentQuads answered.
Middle(quads) == <<"middle", quads>>

\* A mutant of newElement: the new handle is not appended to the parent's
\* childs.
newElementUnlinked(els, parent, id) ==
    Append(els, [ID |-> id, parent |-> parent, childs |-> <<>>, detached |-> 0])

\* newElement: a handle with a clear detached flag, appended to the parent's
\* childs when there is a parent (0 stands for nil).  The description field
\* is stored and never read, so the model leaves it out.
newElement(els, parent, id) ==
    LET e == [ID |-> id, parent |-> parent, childs |-> <<>>, detached |-> 0]
        n == Len(els) + 1
    IN  IF parent # 0
           THEN [Append(els, e) EXCEPT ![parent].childs = Append(@, n)]
           ELSE Append(els, e)

\* A mutant of detach: the flag of the handle and of its direct children is
\* set, deeper descendants are left alone.
detachOneLevel(els, h) ==
    [n \in 1..Len(els) |->
        IF n = h \/ els[n].parent = h THEN [els[n] EXCEPT !.detached = 1]
        ELSE els[n]]

\* element.detach: store 1 in the flag, then detach every child in turn.
RECURSIVE detach(_, _), detachChilds(_, _, _)
detach(els, h) ==
    detachChilds([els EXCEPT ![h].detached = 1], els[h].childs, 1)

\* The range loop of detach over e.childs, from index k on.
detachChilds(els, cs, k) ==
    IF k > Len(cs) THEN els
    ELSE detachChilds(detach(els, cs[k]), cs, k + 1)

\* element.isDetached
isDetached(els, h) == els[h].detached = 1

\* A mutant of renew: a detached handle with a parent is taken for
\* re-resolved as well, and its flag cleared.
renewAny(els, h, ev) ==
    IF ~isDetached(els, h) THEN [els |-> els, calls |-> <<>>, err |-> "nil"]
    ELSE IF els[h].parent = 0 /\ ev.err # "nil"
    THEN [els |-> els, calls |-> <<EvaluateDocument>>,
          err |-> "ErrStaleElementReference"]
    ELSE [els |-> [els EXCEPT ![h].detached = 0,
                              ![h].ID = IF els[h].parent = 0 THEN ev.val ELSE @],
          calls |-> IF els[h].parent = 0 THEN <<EvaluateDocument>> ELSE <<>>,
          err |-> "nil"]

\* element.renew, ev being what session.evaluate answers if it is asked.
\* A detached handle with a parent takes the last branch: the source logs
\* "renew element is not implemented yet" and returns nil.
renew(els, h, ev) ==
    IF ~isDetached(els, h) THEN [els |-> els, calls |-> <<>>, err |-> "nil"]
    ELSE IF els[h].parent = 0
    THEN IF ev.err # "nil"
         THEN [els |-> els, calls |-> <<EvaluateDocument>>,
               err |-> "ErrStaleElementReference"]
         ELSE [els |-> [els EXCEPT ![h].ID = ev.val, ![h].detached = 0],
               calls |-> <<EvaluateDocument>>, err |-> "nil"]
    ELSE [els |-> els, calls |-> <<>>, err |-> "nil"]

\* The evaluate answers worth drawing for a renew of h: one is consumed only
\* by a detached root.
EvalFor(els, h) ==
    IF isDetached(els, h) /\ els[h].parent = 0 THEN EvalResults ELSE {Unused}

\* element.call: renew, then callFunctionOn against the handle's identifier;
\* r is what callFunctionOn answers.
call(els, h, ev, atom, r) ==
    LET rn == renew(els, h, ev)
    IN  IF rn.err # "nil"
        THEN [els |-> rn.els, calls |-> rn.calls, err |-> rn.err, val |-> ""]
        ELSE [els |-> rn.els,
              calls |-> Append(rn.calls, CallFunctionOn(rn.els[h].ID, atom)),
              err |-> r.err, val |-> r.val]

\* element.findElement; ret is the new handle, 0 for nil.
findElement(els, h, ev, q) ==
    LET rn == renew(els, h, ev)
    IN  IF rn.err # "nil"
        THEN [els |-> rn.els, calls |-> rn.calls, err |-> rn.err, ret |-> 0]
        ELSE LET c == call(rn.els, h, ev, "Query", q)
                 cs == rn.calls \o c.calls
             IN  IF c.err # "nil"
                 THEN [els |-> c.els, calls |-> cs, err |-> c.err, ret |-> 0]
                 ELSE IF q.val = "null"
                 THEN [els |-> c.els, calls |-> cs,
                       err |-> "ErrNoSuchElement", ret |-> 0]
                 ELSE [els |-> newElement(c.els, h, q.val), calls |-> cs,
                       err |-> "nil", ret |-> Len(c.els) + 1]

\* The record of an element operation: its name, its receiver, whether the
\* receiver was detached when it was invoked, the answers its session calls
\* got, the error it returned and the handle it returned (0 for none).
Done(op, h, in, err, ret) ==
    [op |-> op, h |-> h, was |-> elems[h].detached, in |-> in,
     err |-> err, ret |-> ret]

\* element.Seek
Seek(h, ev, q) ==
    LET r == findElement(elems, h, ev, q)
    IN  /\ Len(r.els) <= MaxElems
        /\ elems' = r.els
        /\ calls' = r.calls
        /\ elOp' = Done("Seek", h, <<ev, q>>, r.err, r.ret)
        /\ UNCHANGED <<busVars, expectVars, browserVars>>

\* element.Release: releaseObject, whose error is returned, and the deferred
\* detach, which runs whatever releaseObject answered.
Release(h, r) ==
    /\ calls' = <<ObjectCall("Runtime.releaseObject", elems[h].ID)>>
    /\ elems' = detach(elems, h)
    /\ elOp' = Done("Release", h, <<r>>, r.err, 0)
    /\ UNCHANGED <<busVars, expectVars, browserVars>>

\* element.detach called from inside the library (a navigation of the
\* owning document).
Detach(h) ==
    /\ elems' = detach(elems, h)
    /\ calls' = <<>>
    /\ elOp' = Done("detach", h, <<>>, "nil", 0)
    /\ UNCHANGED <<busVars, expectVars, browserVars>>

\* element.Focus: DOM.focus against e.ID, with no renew.
Focus(h, r) ==
    /\ calls' = <<ObjectCall("DOM.focus", elems[h].ID)>>
    /\ elOp' = Done("Focus", h, <<r>>, r.err, 0)
    /\ UNCHANGED <<elems, busVars, expectVars, browserVars>>

\* element.Call: callFunctionOn against e.ID, with no renew.
Call(h, r) ==
    /\ calls' = <<CallFunctionOn(elems[h].ID, "user")>>
    /\ elOp' = Done("Call", h, <<r>>, r.err, 0)
    /\ UNCHANGED <<elems, busVars, expectVars, browserVars>>

\* element.Upload: DOM.setFileInputFiles against e.ID, with no renew.
Upload(h, r) ==
    /\ calls' = <<ObjectCall("DOM.setFileInputFiles", elems[h].ID)>>
    /\ elOp' = Done("Upload", h, <<r>>, r.err, 0)
    /\ UNCHANGED <<elems, busVars, expectVars, browserVars>>

\* element.string behind GetText: call, then the type test of the answer.
GetText(h, ev, r) ==
    LET c == call(elems, h, ev, "GetInnerText", r)
        err == IF c.err # "nil" THEN c.err
               ELSE IF r.val # "string" THEN "ErrInvalidString" ELSE "nil"
    IN  /\ elems' = c.els
        /\ calls' = c.calls
        /\ elOp' = Done("GetText", h, <<ev, r>>, err, 0)
        /\ UNCHANGED <<busVars, expectVars, browserVars>>

\* ---------------------------------------------------------------- Click

\* getContentQuads behind clickablePoint: the quads, or an error, which may
\* be the invisible-element error.
QuadResults == PlainResults \cup {Fail("ErrElementInvisible")}

\* The answers of Click's four awaited session calls (scroll-into-view,
\* content quads, guard injection, guard query); a call after the first
\* failed one is never issued.
ClickScripts ==
    {<<Unused, Unused, Unused, Unused>>}
    \cup {<<s, Unused, Unused, Unused>> : s \in Failures}
    \cup {<<Ok(""), qd, Unused, Unused>> : qd \in QuadResults \ {Ok("")}}
    \cup {<<Ok(""), Ok(""), i, Unused>> : i \in Failures}
    \cup {<<Ok(""), Ok(""), Ok(""), hit>> : hit \in BoolResults}

\* A mutant of clickVerdict: a closed session is no longer taken for a hit.
clickVerdictNoClosed(err, hit) ==
    IF (err = "nil" /\ hit = "true") \/ err = "ErrCannotFindContext"
    THEN "nil" ELSE "ErrElementMissClick"

\* The last statement of Click: what it returns for the error and the value
\* the guard query came back with.
clickVerdict(err, hit) ==
    IF (err = "nil" /\ hit = "true")
       \/ err = "ErrCannotFindContext" \/ err = "ErrSessionClosed"
    THEN "nil" ELSE "ErrElementMissClick"

\* A mutant of pointerEvents: the button goes down before the pointer has
\* moved to the point.
pointerEventsPressFirst(at) ==
    <<DispatchMouseEvent(at, "mousePressed"),
      DispatchMouseEvent(at, "mouseMoved"),
      DispatchMouseEvent(at, "mouseReleased")>>

\* The three dispatchMouseEvent statements of Click; what they answer is
\* dropped, so each is issued whatever the one before it answered.
pointerEvents(at) ==
    <<DispatchMouseEvent(at, "mouseMoved"),
      DispatchMouseEvent(at, "mousePressed"),
      DispatchMouseEvent(at, "mouseReleased")>>

\* What the three pointer dispatches of a Click answer: all succeed, one of
\* them fails, or all fail.
DispatchScripts ==
    LET f == Fail("ErrOther")
    IN  {<<Ok(""), Ok(""), Ok("")>>, <<f, Ok(""), Ok("")>>, <<Ok(""), f, Ok("")>>,
         <<Ok(""), Ok(""), f>>, <<f, f, f>>}

\* element.Click.  rs are the answers of its session calls; nav says that
\* the click made the document navigate, so that the library detaches the
\* document root while the pointer events are in flight; ev2 is what
\* evaluate answers the renew of the guard query.
click(els, h, ev, rs, nav, ev2) ==
    LET c1 == call(els, h, ev, "ScrollIntoView", rs[1])
    IN  IF c1.err # "nil" THEN [els |-> c1.els, calls |-> c1.calls, err |-> c1.err]
    ELSE
    LET k2 == Append(c1.calls, ObjectCall("DOM.getContentQuads", c1.els[h].ID))
    IN  IF rs[2].err # "nil" THEN [els |-> c1.els, calls |-> k2, err |-> rs[2].err]
    ELSE
    LET c3 == call(c1.els, h, ev, "PreventMissClick", rs[3])
        k3 == k2 \o c3.calls
    IN  IF c3.err # "nil" THEN [els |-> c3.els, calls |-> k3, err |-> c3.err]
    ELSE
    LET k4 == k3 \o pointerEvents(Middle(rs[2].val))
        raced == IF nav THEN detach(c3.els, 1) ELSE c3.els
        c5 == call(raced, h, ev2, "IsClickHit", rs[4])
    IN  [els |-> c5.els, calls |-> k4 \o c5.calls,
         err |-> clickVerdict(c5.err, c5.val)]

\* Whether the renew of Click's first call fails.
FirstRenewFails(ev) == ev.err \notin {"nil", "unused"}

\* element.Click as an operation of the caller; ds are the answers of the
\* three pointer dispatches, which Click does not look at.
Click(h, ev, rs, ds, nav, ev2) ==
    LET r == click(elems, h, ev, rs, nav, ev2)
        atGuard == ~FirstRenewFails(ev) /\ rs[3] = Ok("")
        raced == IF nav THEN detach(elems, 1) ELSE elems
    IN  /\ FirstRenewFails(ev) <=> rs[1] = Unused
        /\ ~atGuard => ~nav
        /\ ds \in (IF atGuard THEN DispatchScripts ELSE {<<Unused, Unused, Unused>>})
        /\ ev2 \in (IF atGuard THEN EvalFor(raced, h) ELSE {Unused})
        /\ atGuard /\ FirstRenewFails(ev2) <=> rs[4] = Unused /\ rs[3] = Ok("")
        /\ elems' = r.els
        /\ calls' = r.calls
        /\ elOp' = Done("Click", h, <<ev, rs[1], rs[2], rs[3], rs[4], ev2>> \o ds,
                        r.err, 0)
        /\ UNCHANGED <<busVars, expectVars, browserVars>>

\* --------------------------------------------------------------- SeekAll

\* callFunctionOn(atom.QueryAll): no remote object at all (a nil result with
\* a nil error), the empty node list, a node list with entries, or an error.
QueryAllResults == {Ok("absent"), Ok("NodeList(0)"), Ok("NodeList")} \cup Failures

\* The property descriptors getProperties answers for a node list: for each
\* own property whether it is enumerable (the entries are, "length" is not).
DescriptorLists ==
    {<<>>} \cup {<<a>> : a \in BOOLEAN} \cup {<<a, b>> : a, b \in BOOLEAN}

\* The object identifier of the remote node list.
ListId == "list"

\* The range loop of findElements over the descriptors, from index k on: a
\* new handle under h for every enumerable one.
RECURSIVE appendEnumerable(_, _, _, _)
appendEnumerable(els, h, ds, k) ==
    IF k > Len(ds) THEN els
    ELSE IF ~ds[k] THEN appendEnumerable(els, h, ds, k + 1)
    ELSE appendEnumerable(newElement(els, h, "n1"), h, ds, k + 1)

\* element.findElements.  gp is what getProperties answers and ds the
\* descriptors that come with it; n is the number of handles returned, which
\* are the last n of els.  With no remote object the test `ro == nil ||` is
\* followed by ro.ObjectID, a nil dereference: the goroutine panics.
findElements(els, h, ev, q, gp, ds) ==
    LET rn == renew(els, h, ev)
    IN  IF rn.err # "nil"
        THEN [els |-> rn.els, calls |-> rn.calls, err |-> rn.err, n |-> 0]
        ELSE
    LET c == call(rn.els, h, ev, "QueryAll", q)
        cs == rn.calls \o c.calls
    IN  IF c.err # "nil"
        THEN [els |-> c.els, calls |-> cs, err |-> c.err, n |-> 0]
        ELSE IF q.val = "absent"
        THEN [els |-> c.els, calls |-> cs, err |-> "panic", n |-> 0]
        ELSE IF q.val = "NodeList(0)"
        THEN [els |-> c.els,
              calls |-> Append(cs, ObjectCall("Runtime.releaseObject", ListId)),
              err |-> "ErrNoSuchElement", n |-> 0]
        ELSE LET out == appendEnumerable(c.els, h, ds, 1)
             IN  [els |-> out,
                  calls |-> Append(cs, ObjectCall("Runtime.getProperties", ListId)),
                  err |-> "nil", n |-> Len(out) - Len(c.els)]

\* What becomes of findElements' error in SeekAll: an error is answered with
\* the empty sequence and dropped; a panic is not caught.
seekAllVerdict(err) == IF err = "panic" THEN "panic" ELSE "nil"

\* The answers SeekAll's session calls can get; the descriptors of a failed
\* getProperties are nil.
SeekAllScripts ==
    {<<q, Unused, <<>> >> : q \in QueryAllResults \ {Ok("NodeList")}}
    \cup {<<Unused, Unused, <<>> >>}
    \cup {<<Ok("NodeList"), gp, <<>> >> : gp \in Failures}
    \cup {<<Ok("NodeList"), Ok(""), ds>> : ds \in DescriptorLists}

\* element.SeekAll as an operation of the caller; ret is the number of
\* handles in the sequence it returns.
SeekAll(h, ev, ss) ==
    LET r == findElements(elems, h, ev, ss[1], ss[2], ss[3])
    IN  /\ FirstRenewFails(ev) <=> ss[1] = Unused
        /\ Len(r.els) <= MaxElems
        /\ elems' = r.els
        /\ calls' = r.calls
        /\ elOp' = Done("SeekAll", h, <<ev, ss[1], ss[2], ss[3]>>,
                        seekAllVerdict(r.err), r.n)
        /\ UNCHANGED <<busVars, expectVars, browserVars>>

\* ------------------------------------------------------------- IsVisible

\* element.IsVisible; val is the boolean it returns.
isVisible(els, h, ev, qd, vis) ==
    LET k1 == <<ObjectCall("DOM.getContentQuads", els[h].ID)>>
    IN  IF qd.err # "nil"
        THEN [els |-> els, calls |-> k1, val |-> FALSE,
              err |-> IF qd.err = "ErrElementInvisible" THEN "nil" ELSE qd.err]
        ELSE LET c == call(els, h, ev, "IsVisible", vis)
             IN  [els |-> c.els, calls |-> k1 \o c.calls,
                  val |-> c.err = "nil" /\ c.val = "true", err |-> "nil"]

\* The answers of IsVisible's two session calls.
VisibleScripts ==
    {<<qd, Unused>> : qd \in QuadResults \ {Ok("")}}
    \cup {<<Ok(""), v>> : v \in BoolResults \cup {Unused}}

\* element.IsVisible as an operation of the caller.
IsVisible(h, ev, vs) ==
    LET r == isVisible(elems, h, ev, vs[1], vs[2])
    IN  /\ vs[2] = Unused <=> (vs[1] # Ok("") \/ FirstRenewFails(ev))
        /\ vs[1] # Ok("") => ev = Unused
        /\ elems' = r.els
        /\ calls' = r.calls
        /\ elOp' = Done("IsVisible", h, <<ev, vs[1], vs[2]>>, r.err, 0)
        /\ UNCHANGED <<busVars, expectVars, browserVars>>

\* ------------------------------------------------- Hover, Type and Select

\* element.Hover: scroll into view, clickable point, MouseMove; each error
\* is returned.
hover(els, h, ev, rs) ==
    LET c1 == call(els, h, ev, "ScrollIntoView", rs[1])
    IN  IF c1.err # "nil" THEN [els |-> c1.els, calls |-> c1.calls, err |-> c1.err]
    ELSE
    LET k2 == Append(c1.calls, ObjectCall("DOM.getContentQuads", c1.els[h].ID))
    IN  IF rs[2].err # "nil" THEN [els |-> c1.els, calls |-> k2, err |-> rs[2].err]
    ELSE [els |-> c1.els, calls |-> Append(k2, DispatchMouseEvent(Middle(rs[2].val),
                                                           "mouseMoved")),
          err |-> rs[3].err]

\* The answers of Hover's three session calls; a call after the first failed
\* one is never issued.
HoverScripts ==
    {<<Unused, Unused, Unused>>}
    \cup {<<s, Unused, Unused>> : s \in Failures}
    \cup {<<Ok(""), qd, Unused>> : qd \in QuadResults \ {Ok("")}}
    \cup {<<Ok(""), Ok(""), m>> : m \in PlainResults}

\* element.Hover as an operation of the caller.
Hover(h, ev, rs) ==
    LET r == hover(elems, h, ev, rs)
    IN  /\ FirstRenewFails(ev) <=> rs[1] = Unused
        /\ elems' = r.els
        /\ calls' = r.calls
        /\ elOp' = Done("Hover", h, <<ev>> \o rs, r.err, 0)
        /\ UNCHANGED <<busVars, expectVars, browserVars>>

\* element.Clear: Focus, then the ClearInput atom.  The handle was renewed by
\* the call before it, so its own renew finds the flag clear.
clear(els, h, rs) ==
    LET k1 == <<ObjectCall("DOM.focus", els[h].ID)>>
    IN  IF rs[1].err # "nil" THEN [calls |-> k1, err |-> rs[1].err]
        ELSE [calls |-> Append(k1, CallFunctionOn(els[h].ID, "ClearInput")),
              err |-> rs[2].err]

\* A session call that takes no object: insertText, SendKeys.
SessionCall(method) == [m |-> method, a |-> "", obj |-> ""]

\* The first test of Type: an error of the visibility call and a false
\* answer both give the not-focusable error.
typeGate(err, val) ==
    IF err # "nil" \/ val # "true" THEN "ErrElementNotFocusable" ELSE "nil"

\* element.Type.  rs are the answers of the visibility atom, DOM.focus,
\* ClearInput, the keydown dispatch, insertText, the second dispatch and
\* SendKeys; key tells whether keys were passed.
type(els, h, ev, rs, key) ==
    LET c1 == call(els, h, ev, "IsVisible", rs[1])
        gate == typeGate(c1.err, c1.val)
        id == c1.els[h].ID
    IN  IF gate # "nil" THEN [els |-> c1.els, calls |-> c1.calls, err |-> gate]
    ELSE
    LET c2 == clear(c1.els, h, <<rs[2], rs[3]>>)
        k2 == c1.calls \o c2.calls
    IN  IF c2.err # "nil" THEN [els |-> c1.els, calls |-> k2, err |-> c2.err]
    ELSE
    LET k3 == Append(k2, CallFunctionOn(id, "DispatchEvents"))
    IN  IF rs[4].err # "nil" THEN [els |-> c1.els, calls |-> k3, err |-> rs[4].err]
    ELSE
    LET k4 == Append(k3, SessionCall("Input.insertText"))
    IN  IF rs[5].err # "nil" THEN [els |-> c1.els, calls |-> k4, err |-> rs[5].err]
    ELSE
    LET k5 == Append(k4, CallFunctionOn(id, "DispatchEvents"))
    IN  IF rs[6].err # "nil" THEN [els |-> c1.els, calls |-> k5, err |-> rs[6].err]
    ELSE IF key
    THEN [els |-> c1.els, calls |-> Append(k5, SessionCall("SendKeys")),
          err |-> rs[7].err]
    ELSE [els |-> c1.els, calls |-> k5, err |-> "nil"]

\* The scripts of n plain calls of which call k is the first to fail.
RECURSIVE PlainScripts(_)
PlainScripts(n) ==
    IF n = 0 THEN {<<>>}
    ELSE {<<f>> \o [k \in 1..(n - 1) |-> Unused] : f \in Failures}
         \cup {<<Ok("")>> \o t : t \in PlainScripts(n - 1)}

\* The answers of Type's session calls.
TypeScripts ==
    {<<Unused>> \o [k \in 1..6 |-> Unused]}
    \cup {<<v>> \o [k \in 1..6 |-> Unused] : v \in BoolResults \ {Ok("true")}}
    \cup {<<Ok("true")>> \o t : t \in PlainScripts(6)}

\* element.Type as an operation of the caller.
Type(h, ev, rs, key) ==
    LET r == type(elems, h, ev, rs, key)
    IN  /\ FirstRenewFails(ev) <=> rs[1] = Unused
        /\ key <=> rs[7] # Unused
        /\ elems' = r.els
        /\ calls' = r.calls
        /\ elOp' = Done("Type", h, <<ev>> \o rs, r.err, 0)
        /\ UNCHANGED <<busVars, expectVars, browserVars>>

\* What has.Bool() comes to in Select when the call failed and has is nil:
\* the method's body is not part of the sources, it either dereferences its
\* receiver or answers false.
NilBoolOutcomes == {"panic", "ErrInvalidElementOption"}

\* element.Select.  rs are the answers of describeNode (the node name), of
\* the SelectHasOptions atom, whose error is assigned and never read, and of
\* the Select atom.
select(els, h, ev, rs, nb) ==
    LET k1 == <<ObjectCall("DOM.describeNode", els[h].ID)>>
    IN  IF rs[1].err # "nil" THEN [els |-> els, calls |-> k1, err |-> rs[1].err]
    ELSE IF rs[1].val # "SELECT"
    THEN [els |-> els, calls |-> k1, err |-> "ErrInvalidElementSelect"]
    ELSE
    LET c2 == call(els, h, ev, "SelectHasOptions", rs[2])
        k2 == k1 \o c2.calls
    IN  IF c2.err # "nil" THEN [els |-> c2.els, calls |-> k2, err |-> nb]
    ELSE IF c2.val # "true"
    THEN [els |-> c2.els, calls |-> k2, err |-> "ErrInvalidElementOption"]
    ELSE [els |-> c2.els,
          calls |-> Append(k2, CallFunctionOn(c2.els[h].ID, "Select")),
          err |-> rs[3].err]

\* The answers of Select's session calls.
SelectScripts ==
    {<<n, Unused, Unused>> : n \in {Ok("DIV")} \cup Failures}
    \cup {<<Ok("SELECT"), v, Unused>> : v \in (BoolResults \ {Ok("true")}) \cup {Unused}}
    \cup {<<Ok("SELECT"), Ok("true"), r>> : r \in PlainResults}

\* element.Select as an operation of the caller.
Select(h, ev, rs, nb) ==
    LET r == select(elems, h, ev, rs, nb)
        hasFails == rs[1] = Ok("SELECT") /\ (FirstRenewFails(ev) \/ rs[2].err \in RemoteErrs)
    IN  /\ rs[1] # Ok("SELECT") => ev = Unused
        /\ rs[1] = Ok("SELECT") => (FirstRenewFails(ev) <=> rs[2] = Unused)
        /\ hasFails <=> nb \in NilBoolOutcomes
        /\ elems' = r.els
        /\ calls' = r.calls
        /\ elOp' = Done("Select", h, <<ev>> \o rs, r.err, 0)
        /\ UNCHANGED <<busVars, expectVars, browserVars>>

\* ---------------------------------------------------------------- Expect

\* The answers one attempt of Expect's closure can get from the session:
\* the query's, and for a resolved node under visible, IsVisible's two.
PollScripts(visible) ==
    {<<q, Unused, Unused>> : q \in QueryResults \ {Ok(n) : n \in NodeIds}}
    \cup (IF visible
          THEN {<<Ok(n), vs[1], vs[2]>> : n \in NodeIds,
                    vs \in VisibleScripts \ {<<Ok(""), Unused>>}}
          ELSE {<<Ok(n), Unused, Unused>> : n \in NodeIds})

\* A mutant of expectAttempt: the visibility of the resolved element is not
\* looked at.
expectAttemptAnyVisibility(els, h, visible, ev, ps) ==
    LET f == findElement(els, h, ev, ps[1])
    IN  [els |-> f.els, calls |-> f.calls, err |-> f.err, ret |-> f.ret]

\* The closure Expect hands to the retry loop, run once: Seek, and under
\* visible the IsVisible of the element found.  ret is the element it
\* returns, 0 for nil.
expectAttempt(els, h, visible, ev, ps) ==
    LET f == findElement(els, h, ev, ps[1])
    IN  IF f.err # "nil" \/ ~visible
        THEN [els |-> f.els, calls |-> f.calls, err |-> f.err, ret |-> f.ret]
        ELSE LET v == isVisible(f.els, f.ret, Unused, ps[2], ps[3])
                 cs == f.calls \o v.calls
             IN  IF v.err # "nil"
                 THEN [els |-> v.els, calls |-> cs, err |-> v.err, ret |-> 0]
                 ELSE IF ~v.val
                 THEN [els |-> v.els, calls |-> cs,
                       err |-> "ErrElementInvisible", ret |-> 0]
                 ELSE [els |-> v.els, calls |-> cs, err |-> "nil", ret |-> f.ret]

\* The retry loop (session.Ticker): an attempt that ended with an error is
\* repeated while the loop has not given up; one that ended without is the
\* loop's result.
TickerRepeats(err) == err # "nil"

\* The retry loop may give up at any moment while it is running (its
\* deadline is a matter of time, which the model leaves open).
TickerGivesUp == expect.status = "polling"

\* No Expect was called yet.  polls counts the attempts of the retry loop,
\* notFound those of them that ended with the not-found error, last is the
\* error of the latest attempt.
Idle ==
    [status |-> "idle", h |-> 0, visible |-> FALSE, polls |-> 0,
     notFound |-> 0, last |-> "none", ret |-> 0]

\* Expect is called: the retry loop starts.
ExpectStart(h, visible) ==
    /\ expect.status # "polling"
    /\ expect' = [Idle EXCEPT !.status = "polling", !.h = h, !.visible = visible]
    /\ elOp' = Done("Expect", h, <<>>, "none", 0)
    /\ calls' = <<>>
    /\ UNCHANGED <<elems, busVars, browserVars>>

\* One attempt of the retry loop; on success Expect returns the element.
ExpectPoll(ev, ps) ==
    LET h == expect.h
        r == expectAttempt(elems, h, expect.visible, ev, ps)
    IN  /\ expect.status = "polling"
        /\ expect.polls < MaxPolls
        /\ FirstRenewFails(ev) <=> ps[1] = Unused
        /\ Len(r.els) <= MaxElems
        /\ elems' = r.els
        /\ calls' = r.calls
        /\ elOp' = Done("Expect", h, <<ev>> \o ps, r.err, r.ret)
        /\ expect' = [expect EXCEPT
                        !.polls = @ + 1,
                        !.notFound = IF r.err = "ErrNoSuchElement" THEN @ + 1 ELSE @,
                        !.last = r.err,
                        !.status = IF TickerRepeats(r.err) THEN "polling" ELSE "returned",
                        !.ret = r.ret]
        /\ UNCHANGED <<busVars, browserVars>>

\* The retry loop gives up (its deadline passed) and hands Expect an error;
\* Expect panics with it.
ExpectDeadline ==
    /\ TickerGivesUp
    /\ expect' = [expect EXCEPT !.status = "panicked"]
    /\ UNCHANGED <<elemVars, busVars, browserVars>>

\* The document root handle of a fresh session.
InitElem ==
    /\ elems = newElement(<<>>, 0, "d1")
    /\ elOp = [op |-> "new", h |-> 1, was |-> 0, in |-> <<>>, err |-> "nil", ret |-> 0]
    /\ calls = <<>>
    /\ expect = Idle

NextElem ==
    \/ \E h \in Handles : \E ev \in EvalFor(elems, h), q \in QueryResults : Seek(h, ev, q)
    \/ \E h \in Handles, r \in PlainResults : Release(h, r)
    \/ \E h \in Handles : Detach(h)
    \/ \E h \in Handles, r \in PlainResults : Focus(h, r)
    \/ \E h \in Handles, r \in PlainResults : Call(h, r)
    \/ \E h \in Handles, r \in PlainResults : Upload(h, r)
    \/ \E h \in Handles : \E ev \in EvalFor(elems, h),
          r \in {Ok("string"), Ok("object")} \cup Failures : GetText(h, ev, r)
    \/ \E h \in Handles, ss \in SeekAllScripts :
          \E ev \in EvalFor(elems, h) : SeekAll(h, ev, ss)

NextOps ==
    \/ \E h \in Handles, q \in QueryResults :
          \E ev \in EvalFor(elems, h) : Seek(h, ev, q)
    \/ Detach(1)
    \/ \E h \in Handles, vs \in VisibleScripts :
          \E ev \in EvalFor(elems, h) \cup {Unused} : IsVisible(h, ev, vs)
    \/ \E h \in Handles, rs \in HoverScripts :
          \E ev \in EvalFor(elems, h) : Hover(h, ev, rs)
    \/ \E h \in Handles, rs \in TypeScripts, key \in BOOLEAN :
          \E ev \in EvalFor(elems, h) : Type(h, ev, rs, key)
    \/ \E h \in Handles, rs \in SelectScripts, nb \in NilBoolOutcomes \cup {"unused"} :
          \E ev \in EvalFor(elems, h) \cup {Unused} : Select(h, ev, rs, nb)

\* Click looks at its receiver and, through a navigation, at the root: the
\* handles it is tried on are the root and handles sought under it, one
\* fewer than the bound allows.
NextClick ==
    \/ \E h \in Handles : \E ev \in EvalFor(elems, h), q \in QueryResults :
          Len(elems) + 1 < MaxElems /\ Seek(h, ev, q)
    \/ \E h \in Handles : Detach(h)
    \/ \E h \in Handles, rs \in ClickScripts :
          \E ev \in EvalFor(elems, h),
             nav \in (IF rs[3] = Ok("") THEN BOOLEAN ELSE {FALSE}),
             ds \in (IF rs[3] = Ok("") THEN DispatchScripts
                     ELSE {<<Unused, Unused, Unused>>}) :
             \E ev2 \in (IF rs[3] = Ok("")
                         THEN EvalFor(IF nav THEN detach(elems, 1) ELSE elems, h)
                         ELSE {Unused}) :
                Click(h, ev, rs, ds, nav, ev2)

NextExpect ==
    \/ \E h \in Handles, visible \in BOOLEAN : ExpectStart(h, visible)
    \/ /\ expect.status = "polling"
       /\ \E ps \in PollScripts(expect.visible) :
             \E ev \in EvalFor(elems, expect.h) : ExpectPoll(ev, ps)
    \/ ExpectDeadline
    \/ Detach(1)

\* ========================================================== BrowserContext

\* A protocol call of BrowserContext or of a session under construction.
Protocol(method, arg) == [m |-> method, arg |-> arg]

\* The domain-enabling calls of runSession, in source order.
EnableCalls ==
    <<"Page.enable", "Runtime.enable", "Runtime.addBinding",
      "Page.setLifecycleEventsEnabled", "Target.setDiscoverTargets",
      "Network.enable">>

\* The answers of the enabling calls: all succeed, or the k-th is the first
\* to fail and the later ones are never issued.
EnableScripts ==
    {[k \in 1..Len(EnableCalls) |-> Ok("")]}
    \cup {[k \in 1..Len(EnableCalls) |->
              IF k < f THEN Ok("") ELSE IF k = f THEN Fail(e) ELSE Unused] :
          f \in 1..Len(EnableCalls), e \in RemoteErrs}

\* A mutant of enableFrom: a failed enabling call does not stop the sequence.
RECURSIVE enableFromIgnoring(_, _, _)
enableFromIgnoring(k, es, sid) ==
    IF k > Len(EnableCalls) THEN [err |-> "nil", calls |-> <<>>]
    ELSE LET rest == enableFromIgnoring(k + 1, es, sid)
         IN  [err |-> rest.err,
              calls |-> <<Protocol(EnableCalls[k], sid)>> \o rest.calls]

\* The chain of `if err = ...; err != nil { return nil, err }` of runSession
\* from the k-th enabling call on: the error it returns and the calls issued.
RECURSIVE enableFrom(_, _, _)
enableFrom(k, es, sid) ==
    IF k > Len(EnableCalls) THEN [err |-> "nil", calls |-> <<>>]
    ELSE IF es[k].err # "nil"
    THEN [err |-> es[k].err, calls |-> <<Protocol(EnableCalls[k], sid)>>]
    ELSE LET rest == enableFrom(k + 1, es, sid)
         IN  [err |-> rest.err,
              calls |-> <<Protocol(EnableCalls[k], sid)>> \o rest.calls]

\* A mutant of runSession: a failed enabling call is followed by
\* b.Client.Unregister(session) and session.exit().
runSessionCleaningUp(ss, tid, sid, es) ==
    LET en == enableFrom(1, es, sid)
        s == [tid |-> tid, id |-> sid, loops |-> 1,
              registered |-> en.err = "nil", exited |-> en.err # "nil",
              state |-> IF en.err = "nil" THEN "Running" ELSE "Starting"]
    IN  [ss |-> Append(ss, s), calls |-> en.calls, err |-> en.err,
         ret |-> IF en.err = "nil" THEN Len(ss) + 1 ELSE 0]

\* BrowserContext.runSession.  The session object is built, its lifecycle
\* goroutine started and the object registered with the client before the
\* first enabling call.  The source keeps no state field; state is "Running"
\* for a session that runSession returned to its caller, "Starting" before.
\* loops counts the `go session.lifecycle()` statements run for the session,
\* exited tells whether session.exit, the cancel function of its context,
\* was called: no return of runSession calls it or Unregister.
runSession(ss, tid, sid, es) ==
    LET en == enableFrom(1, es, sid)
        s == [tid |-> tid, id |-> sid, loops |-> 1, registered |-> TRUE,
              exited |-> FALSE,
              state |-> IF en.err = "nil" THEN "Running" ELSE "Starting"]
    IN  [ss |-> Append(ss, s), calls |-> en.calls, err |-> en.err,
         ret |-> IF en.err = "nil" THEN Len(ss) + 1 ELSE 0]

\* BrowserContext.AttachPageTarget; ar is what attachToTarget answers.
attachPageTarget(ss, tid, ar, es) ==
    LET k == <<Protocol("Target.attachToTarget", tid)>>
    IN  IF ar.err # "nil"
        THEN [ss |-> ss, calls |-> k, err |-> ar.err, ret |-> 0]
        ELSE LET r == runSession(ss, tid, ar.val, es)
             IN  [ss |-> r.ss, calls |-> k \o r.calls, err |-> r.err, ret |-> r.ret]

\* The blank-page URL (the constant Blank of the package).
Blank == "about:blank"

\* A mutant of targetUrl: the empty URL is passed on as it is.
targetUrlAsGiven(url) == url

\* The URL CreatePageTarget creates the target with.
targetUrl(url) == IF url = "" THEN Blank ELSE url

\* BrowserContext.CreatePageTarget; cr is what createTarget answers.
createPageTarget(ss, url, cr, ar, es) ==
    LET k == <<Protocol("Target.createTarget", targetUrl(url))>>
    IN  IF cr.err # "nil"
        THEN [ss |-> ss, calls |-> k, err |-> cr.err, ret |-> 0]
        ELSE LET a == attachPageTarget(ss, cr.val, ar, es)
             IN  [ss |-> a.ss, calls |-> k \o a.calls, err |-> a.err, ret |-> a.ret]

\* A mutant of closeVerdict: the detached-from-target error is returned.
closeVerdictUnfiltered(err) == err

\* What CloseTarget returns for the error of its close call.
closeVerdict(err) == IF err = "ErrDetachedFromTarget" THEN "nil" ELSE err

TargetIds == {"t1", "t2"}
SessionIds == {"s1"}
Urls == {"", "http://a"}
CreateResults == {Ok(t) : t \in TargetIds} \cup Failures
AttachResults == {Ok(s) : s \in SessionIds} \cup Failures
CloseResults == PlainResults \cup {Fail("ErrDetachedFromTarget")}

\* The answers CreatePageTarget and AttachPageTarget consume: attach is not
\* asked after a failed create, no enabling call after a failed attach.
AttachScripts ==
    {<<ar, es>> : ar \in {Ok(s) : s \in SessionIds}, es \in EnableScripts}
    \cup {<<ar, [k \in 1..Len(EnableCalls) |-> Unused]>> : ar \in Failures}
CreateScripts ==
    {<<cr, as[1], as[2]>> : cr \in {Ok(t) : t \in TargetIds}, as \in AttachScripts}
    \cup {<<cr, Unused, [k \in 1..Len(EnableCalls) |-> Unused]>> : cr \in Failures}

\* BrowserContext.AttachPageTarget as an operation of the caller.
AttachPageTarget(tid, as) ==
    LET r == attachPageTarget(sessions, tid, as[1], as[2])
    IN  /\ Len(r.ss) <= MaxSessions
        /\ sessions' = r.ss
        /\ brCalls' = r.calls
        /\ brOp' = [op |-> "AttachPageTarget", arg |-> tid,
                    in |-> <<Unused, as[1]>> \o as[2], err |-> r.err, ret |-> r.ret]
        /\ UNCHANGED <<busVars, elemVars, expectVars>>

\* BrowserContext.CreatePageTarget as an operation of the caller.
CreatePageTarget(url, cs) ==
    LET r == createPageTarget(sessions, url, cs[1], cs[2], cs[3])
    IN  /\ Len(r.ss) <= MaxSessions
        /\ sessions' = r.ss
        /\ brCalls' = r.calls
        /\ brOp' = [op |-> "CreatePageTarget", arg |-> url,
                    in |-> <<cs[1], cs[2]>> \o cs[3], err |-> r.err, ret |-> r.ret]
        /\ UNCHANGED <<busVars, elemVars, expectVars>>

\* BrowserContext.CloseTarget; r is what the close call answers.
CloseTarget(tid, r) ==
    /\ brCalls' = <<Protocol("Target.closeTarget", tid)>>
    /\ brOp' = [op |-> "CloseTarget", arg |-> tid, in |-> <<r>>,
                err |-> closeVerdict(r.err), ret |-> 0]
    /\ UNCHANGED <<sessions, busVars, elemVars, expectVars>>

\* control.New: a context with no session yet.
InitBrowser ==
    /\ sessions = <<>>
    /\ brOp = [op |-> "New", arg |-> "", in |-> <<>>, err |-> "nil", ret |-> 0]
    /\ brCalls = <<>>

NextBrowser ==
    \/ \E tid \in TargetIds, as \in AttachScripts : AttachPageTarget(tid, as)
    \/ \E url \in Urls, cs \in CreateScripts : CreatePageTarget(url, cs)
    \/ \E tid \in TargetIds, r \in CloseResults : CloseTarget(tid, r)

\* ================================================================ properties

\* C1: after Notify(e, v), a registered observer with filter f had its
\* callback invoked (once, with v) if and only if f = "*", e = "" or f = e;
\* every other registered observer was not invoked.
C1_NotifyFilter ==
    busOp.op = "Notify" =>
        /\ \A n \in 1..Len(observers) :
              LET f == observers[n].event
                  got == {k \in 1..Len(delivered) : delivered[k].pos = n}
              IN  /\ got # {} <=> (f = "*" \/ busOp.event = "" \/ f = busOp.event)
                  /\ Cardinality(got) <= 1
        /\ \A k \in 1..Len(delivered) :
              /\ delivered[k].pos \in 1..Len(observers)
              /\ delivered[k].id = observers[delivered[k].pos].id
              /\ delivered[k].val = busOp.val

\* A Notify of a named event that reaches a same-name and a "*" observer and
\* passes over an observer of another name.
C1_Witness ==
    /\ busOp.op = "Notify" /\ busOp.event = "a"
    /\ \E n \in 1..Len(observers) : observers[n].event = "b"
    /\ \E n \in 1..Len(observers) : observers[n].event = "a"
    /\ \E n \in 1..Len(observers) : observers[n].event = "*"
    /\ Len(delivered) = 2

\* Number of entries of obs equal to x.
CountEntry(obs, x) == Cardinality({n \in 1..Len(obs) : obs[n] = x})

\* The first entry of obs whose identity is i.
FirstWithId(obs, i) ==
    obs[CHOOSE n \in 1..Len(obs) :
            obs[n].id = i /\ \A m \in 1..(n - 1) : obs[m].id # i]

\* C2 as stated: once Unregister(o) has returned, o is registered no more
\* and no Notify invokes it, however often its identity had been registered.
C2_Original ==
    /\ busOp.op = "Unregister" => CountId(observers, busOp.id) = 0
    /\ busOp.op = "Notify" =>
          \A k \in 1..Len(delivered) : delivered[k].id \notin gone

\* C2, amended: Unregister(o) changes the registered collection by exactly
\* the removal of the first entry with o's identity (by nothing when there is
\* none) and every other entry stays registered; o is registered no more, and
\* so receives no further notification, when at most one entry had its
\* identity, and otherwise stays registered once less than before.  Notify
\* invokes registered entries only.
C2_UnregisterRemovesFirst ==
    [][ /\ busOp'.op = "Unregister" =>
              LET i == busOp'.id
                  had == CountId(observers, i)
              IN  /\ had = 0 => observers' = observers
                  /\ had > 0 =>
                        /\ Len(observers') = Len(observers) - 1
                        /\ \A x \in ObserverEntries :
                              CountEntry(observers', x) =
                                 CountEntry(observers, x)
                                 - (IF x = FirstWithId(observers, i) THEN 1 ELSE 0)
                  /\ had <= 1 => CountId(observers', i) = 0
                  /\ had > 1 => CountId(observers', i) = had - 1
        /\ busOp'.op = "Notify" =>
              /\ observers' = observers
              /\ \A k \in 1..Len(delivered') :
                    /\ delivered'[k].pos \in 1..Len(observers)
                    /\ observers[delivered'[k].pos].id = delivered'[k].id
      ]_vars

\* An Unregister that left a second entry of the same identity behind, next
\* to an entry of another identity.
C2_Witness ==
    /\ busOp.op = "Unregister"
    /\ CountId(observers, busOp.id) = 1
    /\ Len(observers) = 2

\* Whether handle d is a or lies below a, by the parent references.
RECURSIVE Below(_, _)
Below(d, a) ==
    d = a \/ (elems[d].parent # 0 /\ Below(elems[d].parent, a))

\* Depth of handle d below the root.
RECURSIVE Depth(_)
Depth(d) == IF elems[d].parent = 0 THEN 0 ELSE 1 + Depth(elems[d].parent)

\* C3: when Release or the internal detach of a handle has returned, the
\* handle and every descendant of it at every depth is detached, whatever the
\* release-object call answered.
C3_DetachWholeSubtree ==
    elOp.op \in {"Release", "detach"} =>
        \A d \in Handles : Below(d, elOp.h) => elems[d].detached = 1

\* A Release whose remote call failed, of a handle with a grandchild.
C3_Witness ==
    /\ elOp.op = "Release" /\ elOp.err # "nil"
    /\ \E d \in Handles : Below(d, elOp.h) /\ Depth(d) = Depth(elOp.h) + 2

\* The operations a caller invokes on an element to act on the page or to
\* read from it.
CallerOps == {"Seek", "Click", "Focus", "Call", "Upload", "GetText", "IsVisible"}

\* C4 as stated: an element operation invoked on a detached handle that has a
\* parent fails with the stale-reference error and issues no session call.
C4_StaleHandleFails ==
    (elOp.op \in CallerOps /\ elOp.was = 1 /\ elems[elOp.h].parent # 0) =>
        /\ elOp.err = "ErrStaleElementReference"
        /\ calls = <<>>

\* C5 as stated: an operation invoked on the detached document root
\* re-resolves the document exactly once, before any other session call;
\* with the document re-resolved, the handle has taken over the re-resolved
\* identifier, the operation's own calls go to it, and the flag is clear.
C5_RootSelfHeal ==
    (elOp.op \in CallerOps /\ elOp.was = 1 /\ elems[elOp.h].parent = 0) =>
        /\ Cardinality({k \in 1..Len(calls) : calls[k] = EvaluateDocument}) = 1
        /\ calls[1] = EvaluateDocument
        /\ elOp.err # "ErrStaleElementReference" =>
              /\ elems[elOp.h].detached = 0
              /\ \A k \in 2..Len(calls) : calls[k].obj \in {"", elems[elOp.h].ID}

\* Whether the guard query of the Click last performed came back with a hit
\* or with one of the two tolerated errors.
GuardPassed(g) ==
    \/ g.err = "nil" /\ g.val = "true"
    \/ g.err = "ErrCannotFindContext"
    \/ g.err = "ErrSessionClosed"

EnableAnswersOf(op) == SubSeq(op.in, 3, Len(op.in))

\* The enabling calls among the protocol calls cs.
EnablingIn(cs) ==
    SelectSeq(cs, LAMBDA c : \E k \in 1..Len(EnableCalls) : c.m = EnableCalls[k])

\* C7: when an enabling call of a session construction fails, the
\* construction returns that error and no session, no later enabling call is
\* issued (the ones issued are the calls up to the failed one, in source
\* order), and the session built is not Running; no operation ever makes a
\* session Running that was built without being so.
C7_EnableFailureStopsConstruction ==
    [][ /\ brOp'.op \in {"AttachPageTarget", "CreatePageTarget"} =>
              \A k \in 1..Len(EnableCalls) :
                  EnableAnswersOf(brOp')[k].err \in RemoteErrs =>
                      /\ brOp'.err = EnableAnswersOf(brOp')[k].err
                      /\ brOp'.ret = 0
                      /\ Len(EnablingIn(brCalls')) = k
                      /\ \A j \in 1..k : EnablingIn(brCalls')[j].m = EnableCalls[j]
                      /\ Len(sessions') = Len(sessions) + 1
                      /\ sessions'[Len(sessions')].state # "Running"
        /\ \A s \in 1..Len(sessions) :
              /\ s <= Len(sessions')
              /\ sessions'[s].state = "Running" => sessions[s].state = "Running"
      ]_vars

\* An attach whose fourth enabling call (lifecycle events) failed.
C7_Witness ==
    /\ brOp.op = "AttachPageTarget"
    /\ EnableAnswersOf(brOp)[4].err = "ErrOther"
    /\ sessions[Len(sessions)].state = "Starting"
    /\ brOp.err = "ErrOther"
    /\ Len(brCalls) = 5

\* C8: CloseTarget returns success when its close call succeeds or fails with
\* the detached-from-target error, returns every other error unchanged, and
\* issues the close call exactly once.
C8_CloseTargetVerdict ==
    brOp.op = "CloseTarget" =>
        /\ brOp.in[1].err \in {"nil", "ErrDetachedFromTarget"} => brOp.err = "nil"
        /\ brOp.in[1].err \notin {"nil", "ErrDetachedFromTarget"} =>
              brOp.err = brOp.in[1].err
        /\ brCalls = <<Protocol("Target.closeTarget", brOp.arg)>>

\* A CloseTarget whose close call lost the race against the detach event.
C8_Witness ==
    /\ brOp.op = "CloseTarget"
    /\ brOp.in[1].err = "ErrDetachedFromTarget"
    /\ brOp.err = "nil"

\* C9: CreatePageTarget issues one create-target call, first, whose URL is
\* never empty: the blank-page URL for the input "", the input itself
\* otherwise; attach is issued only after create-target succeeded, with the
\* target identifier create-target returned.
C9_CreateTargetUrl ==
    brOp.op = "CreatePageTarget" =>
        LET creates == {k \in 1..Len(brCalls) : brCalls[k].m = "Target.createTarget"}
            attaches == {k \in 1..Len(brCalls) : brCalls[k].m = "Target.attachToTarget"}
        IN  /\ creates = {1}
            /\ brCalls[1].arg # ""
            /\ brCalls[1].arg = (IF brOp.arg = "" THEN Blank ELSE brOp.arg)
            /\ attaches = (IF brOp.in[1].err = "nil" THEN {2} ELSE {})
            /\ attaches # {} => brCalls[2].arg = brOp.in[1].val

\* A CreatePageTarget("") whose target was created as t2 and attached to.
C9_Witness ==
    /\ brOp.op = "CreatePageTarget" /\ brOp.arg = ""
    /\ brOp.in[1] = Ok("t2")
    /\ Len(brCalls) >= 2 /\ brCalls[2] = Protocol("Target.attachToTarget", "t2")

\* Whether the answers of an attempt of Expect's closure make it a success:
\* the document was there, the query resolved to a node and, under visible,
\* the node has quads and reports itself visible.
AttemptSucceeds(visible, in) ==
    /\ in[1].err \in {"nil", "unused"}
    /\ in[2].err = "nil" /\ in[2].val \in NodeIds
    /\ visible => in[3] = Ok("") /\ in[4] = Ok("true")

SeekAllSucceeds(in) ==
    /\ in[1].err \in {"nil", "unused"}
    /\ in[2] = Ok("NodeList")
    /\ in[3] = Ok("")

\* C11 as stated: SeekAll never propagates a failure; on a stale handle, a
\* failed query, an absent or empty result or a failed enumeration it returns
\* the empty sequence, and on success one handle per enumerable property and
\* none for the others.
C11_SeekAllNeverFails ==
    elOp.op = "SeekAll" =>
        /\ elOp.err = "nil"
        /\ ~SeekAllSucceeds(elOp.in) => elOp.ret = 0
        /\ SeekAllSucceeds(elOp.in) =>
              elOp.ret = Cardinality({k \in 1..Len(elOp.in[4]) : elOp.in[4][k]})

\* The callbacks of the last Notify were all invoked before it returned, in
\* the order of the slice: every matching position once, positions ascending.
DeliveredInSliceOrder(obs, dl, event) ==
    /\ \A k \in 1..Len(dl) : dl[k].pos \in 1..Len(obs)
    /\ \A k \in 1..(Len(dl) - 1) : dl[k].pos < dl[k + 1].pos
    /\ {dl[k].pos : k \in 1..Len(dl)} =
          {n \in 1..Len(obs) : Matches(obs[n].event, event)}

\* obs without its n-th entry, the others in their order.
WithoutKeepingOrder(obs, n) ==
    SubSeq(obs, 1, n - 1) \o SubSeq(obs, n + 1, Len(obs))

\* C12 as stated: every Notify invokes the matching observers, all before it
\* returns, in the order of the slice, and the slice is in registration
\* order: Register appends and Unregister takes one entry out from between
\* the others without reordering them.
C12_Original ==
    [][ /\ busOp'.op = "Notify" =>
              /\ observers' = observers
              /\ DeliveredInSliceOrder(observers, delivered', busOp'.event)
        /\ busOp'.op = "Register" =>
              observers' = Append(observers, [id |-> busOp'.id,
                                              event |-> busOp'.event])
        /\ busOp'.op = "Unregister" =>
              \/ observers' = observers
              \/ \E n \in 1..Len(observers) :
                    observers' = WithoutKeepingOrder(observers, n)
      ]_vars

\* C12, amended: every Notify invokes the matching observers, all before it
\* returns, in the order of the slice.  Register appends to the slice; an
\* Unregister that removes the entry in slot n puts the last entry of the
\* slice into slot n and leaves the others in place, so after it the last
\* registered observer is invoked at the removed one's place, ahead of
\* observers registered before it.
C12_DeliveryInSliceOrder ==
    [][ /\ busOp'.op = "Notify" =>
              /\ observers' = observers
              /\ DeliveredInSliceOrder(observers, delivered', busOp'.event)
        /\ busOp'.op = "Register" =>
              observers' = Append(observers, [id |-> busOp'.id,
                                              event |-> busOp'.event])
        /\ busOp'.op = "Unregister" =>
              \/ observers' = observers
              \/ \E n \in 1..Len(observers) :
                    /\ Len(observers') = Len(observers) - 1
                    /\ observers[n].id = busOp'.id
                    /\ \A j \in 1..Len(observers') :
                          observers'[j] = IF j = n
                                             THEN observers[Len(observers)]
                                             ELSE observers[j]
      ]_vars

\* A Notify that invoked two observers of different identities after an
\* Unregister had taken an entry out of the slice.
C12_Witness ==
    /\ busOp.op = "Notify"
    /\ gone # {}
    /\ Len(delivered) = 2
    /\ delivered[1].id # delivered[2].id

\* The threads inside the delivery pass of a Notify: past the evaluation of
\* the range expression and not yet returned.
InPass(t) == threads[t].op = "Notify" /\ threads[t].pc \in {"body", "unlock"}

\* C13: while a thread is in the delivery pass of a Notify, the registered
\* collection is the one the pass began with (no Register or Unregister of
\* another thread takes effect during the pass), the callbacks invoked so far
\* are those of the matching observers of that collection before the loop's
\* position, and when the loop is over they are those of all its matching
\* observers and of no other.
C13_NotifyPassIsAtomic ==
    \A t \in Threads :
        InPass(t) =>
            LET th == threads[t]
            IN  /\ mx = t
                /\ observers = th.snap
                /\ \A u \in Threads \ {t} : threads[u].pc \in {"idle", "lock"}
                /\ th.got =
                      NotifyFrom(SubSeq(th.snap, 1, th.n - 1), 1, th.event, th.val)
                /\ th.pc = "unlock" =>
                      th.got = NotifyFrom(th.snap, 1, th.event, th.val)

\* A Notify that has invoked two callbacks and is about to return while
\* another thread waits for the mutex with a Register or an Unregister.
C13_Witness ==
    \E t \in Threads, u \in Threads :
        /\ InPass(t) /\ threads[t].pc = "unlock"
        /\ Len(threads[t].got) = 2
        /\ threads[u].pc = "lock"
        /\ threads[u].op \in {"Register", "Unregister"}

\* C14 as stated: in every reachable state every descendant of a detached
\* handle is itself detached: no handle with a clear flag lies below a
\* detached ancestor.
C14_DetachedSubtreeClosed ==
    \A a \in Handles, d \in Handles :
        (Below(d, a) /\ elems[a].detached = 1) => elems[d].detached = 1

\* The operations C15 is about that the model holds.
PropagatingOps == {"Hover", "Type", "IsVisible", "Select", "Seek", "GetText"}

\* C15 as stated: an element operation other than Click that stopped because
\* a session call of it failed with the session-closed or the
\* context-destroyed error returned that very error.
C15_ClosedErrorsPropagate ==
    elOp.op \in PropagatingOps =>
        \A k \in 1..Len(elOp.in) :
            elOp.in[k].err \in {"ErrSessionClosed", "ErrCannotFindContext"} =>
                elOp.err = elOp.in[k].err

\* The session calls of the last operation without the document
\* re-resolutions of renew.
OwnCalls == SelectSeq(calls, LAMBDA c : c # EvaluateDocument)

\* Whether call c is the callFunctionOn of the given atom.
IsAtom(c, atom) == c.m = "Runtime.callFunctionOn" /\ c.a = atom

\* Whether call c is the dispatch of the given pointer event at the point
\* computed from the quads this Click got.
IsPointer(c, kind) ==
    /\ c.m = "Input.dispatchMouseEvent" /\ c.a = kind
    /\ c.at = Middle(elOp.in[3].val)

C17_SeekFrame ==
    [][ (/\ elOp'.op = "Seek"
         /\ ~(elems[elOp'.h].detached = 1 /\ elems[elOp'.h].parent # 0)) =>
            LET h == elOp'.h
                ev == elOp'.in[1]
                q == elOp'.in[2]
                new == Len(elems) + 1
            IN  /\ (~FirstRenewFails(ev) /\ q.err = "nil" /\ q.val # "null") =>
                      /\ elOp'.err = "nil" /\ elOp'.ret = new
                      /\ Len(elems') = new
                      /\ elems'[new] = [ID |-> q.val, parent |-> h,
                                        childs |-> <<>>, detached |-> 0]
                      /\ elems'[h].childs = Append(elems[h].childs, new)
                      /\ elems'[h].detached = 0
                      /\ \A n \in 1..Len(elems) : n # h => elems'[n] = elems[n]
                /\ ~(~FirstRenewFails(ev) /\ q.err = "nil" /\ q.val # "null") =>
                      /\ elOp'.ret = 0
                      /\ Len(elems') = Len(elems)
                      /\ \A n \in 1..Len(elems) : elems'[n].childs = elems[n].childs
                      /\ elOp'.err =
                            IF FirstRenewFails(ev) THEN "ErrStaleElementReference"
                            ELSE IF q.err # "nil" THEN q.err
                            ELSE "ErrNoSuchElement"
      ]_vars

\* A Seek that returned a second child of its receiver.
C17_Witness ==
    /\ elOp.op = "Seek" /\ elOp.err = "nil" /\ elOp.ret # 0
    /\ elOp.was = 0
    /\ elems[elOp.ret].parent = elOp.h
    /\ Len(elems[elOp.h].childs) = 2
    /\ elems[elOp.h].childs[2] = elOp.ret

\* C18: no step clears the detached flag of a handle that has a parent,
\* whatever the operation and whichever handle it is invoked on; a step
\* that clears a flag clears that of a handle without parent, the root.
C18_DetachIrreversible ==
    [][ \A n \in 1..Len(elems) :
            (elems[n].detached = 1 /\ elems'[n].detached = 0) =>
                /\ elems[n].parent = 0
                /\ elOp'.h = n
      ]_vars

\* The root went from detached back to not detached by an operation on it,
\* and a child detached with it has stayed detached.
C18_Witness ==
    /\ elOp.was = 1 /\ elOp.h = 1
    /\ elems[1].detached = 0
    /\ \E n \in Handles : elems[n].parent = 1 /\ elems[n].detached = 1

\* C19: a session construction that failed at an enabling call returned no
\* session, and the session object it had built is registered with the
\* client, has its one lifecycle goroutine started and its context not
\* cancelled; no later operation unregisters or cancels a session, and no
\* session has more than one lifecycle goroutine started.
C19_FailedSessionStaysLive ==
    [][ /\ (/\ brOp'.op \in {"AttachPageTarget", "CreatePageTarget"}
            /\ \E k \in 1..Len(EnableCalls) :
                  EnableAnswersOf(brOp')[k].err \in RemoteErrs) =>
              /\ brOp'.ret = 0
              /\ Len(sessions') = Len(sessions) + 1
              /\ sessions'[Len(sessions')].registered
              /\ sessions'[Len(sessions')].loops = 1
              /\ ~sessions'[Len(sessions')].exited
        /\ \A s \in 1..Len(sessions) :
              /\ sessions'[s].registered = sessions[s].registered
              /\ sessions'[s].exited = sessions[s].exited
              /\ sessions'[s].loops = sessions[s].loops
        /\ \A s \in 1..Len(sessions') : sessions'[s].loops <= 1
      ]_vars

\* A page creation whose first enabling call failed: no session came back,
\* and the one built is registered with its goroutine running.
C19_Witness ==
    /\ brOp.op = "CreatePageTarget" /\ brOp.ret = 0
    /\ EnableAnswersOf(brOp)[1].err = "ErrSessionClosed"
    /\ sessions # <<>>
    /\ sessions[Len(sessions)].registered
    /\ sessions[Len(sessions)].loops = 1
    /\ ~sessions[Len(sessions)].exited
    /\ sessions[Len(sessions)].state = "Starting"

Init == InitBus /\ InitElem /\ InitBrowser

Next == NextBus \/ NextBusThreads \/ NextElem \/ NextOps \/ NextClick \/ NextExpect \/ NextBrowser

Spec == Init /\ [][Next]_vars

SpecBus == Init /\ [][NextBus]_vars

SpecBusThreads == Init /\ [][NextBusThreads]_vars

SpecElem == Init /\ [][NextElem]_vars

SpecOps == Init /\ [][NextOps]_vars

SpecClick == Init /\ [][NextClick]_vars

SpecExpect == Init /\ [][NextExpect]_vars

SpecBrowser == Init /\ [][NextBrowser]_vars

====
